---- MODULE Spec2Model ----
\* Library catalog service: BookCrudService over the three repository backends
\* (FileRepository, JsonBinRepository, DbPostgresRepository) with the
\* enrichment call of OpenLibraryApi as the only suspension point.
EXTENDS Integers, Sequences, FiniteSets, Bags, TLC

\* ---------------------------------------------------------------- bounds
\* A create is accepted while the id it would get is at most MaxId.
MaxId == 2
\* Requests that may be suspended at the enrichment wait at the same time.
MaxInFlight == 2

\* ---------------------------------------------------------------- values
\* Python None of a text field / of a numeric field.
NullS == "<None>"
NullI == -1
\* A key that is not in the dict (a field that was not set).
AbsentS == "<absent>"
AbsentI == -2
\* str(None), what DbPostgresRepository.update_data writes for a missing cover.
StrOfNone == "None"

StorageType == {"file", "jsonbin", "db"}

UserFields == {"title", "author", "publication_year", "genre", "pages", "availability"}
EnrichFields == {"cover_url", "description", "rating"}
RequiredFields == {"id"} \cup UserFields
SchemaFields == RequiredFields \cup EnrichFields
\* book_dict may carry one key the schema does not know.
Keys == SchemaFields \cup {"asdasd"}
IntFields == {"id", "publication_year", "pages", "rating", "asdasd"}

Null(f) == IF f \in IntFields THEN NullI ELSE NullS
Absent(f) == IF f \in IntFields THEN AbsentI ELSE AbsentS

\* Ratings are kept in tenths: 48 is 4.8.
CoverUrl == "https://covers.openlibrary.org/b/id/1-M.jpg"
\* The cover of an edition, found by probing the covers service.
EditionCoverUrl == "https://covers.openlibrary.org/b/OLID/OL1M-M.jpg"
Urls == {CoverUrl, EditionCoverUrl}

\* Request bodies accepted by BookCreate.
CreateBodies ==
    { [title |-> "Dune", author |-> "Herbert", publication_year |-> 1965,
       genre |-> "SF", pages |-> 412, availability |-> "available"] }

\* Request bodies accepted by BookUpdate: every field optional, null allowed;
\* Absent marks a field the request did not set.
NoUpdate == [f \in UserFields |-> Absent(f)]
UpdateBodies ==
    { NoUpdate,
      [NoUpdate EXCEPT !.pages = 300],
      [NoUpdate EXCEPT !.title = "Solaris", !.pages = NullI] }

\* Results the enrichment provider may hand back (EnrichBookData).
NoEnrichment == [cover_url |-> NullS, description |-> NullS, rating |-> NullI]
EnrichResults ==
    { NoEnrichment,
      [cover_url |-> NullS, description |-> NullS, rating |-> 48],
      [cover_url |-> CoverUrl, description |-> "text", rating |-> 0] }

\* The smaller input sets of the interleaved specification.
InterleavedEnrichResults ==
    { NoEnrichment,
      [cover_url |-> CoverUrl, description |-> "text", rating |-> 0] }
InterleavedUpdateBodies ==
    { [NoUpdate EXCEPT !.pages = 300],
      [NoUpdate EXCEPT !.title = "Solaris"] }

Ids == 1..(MaxId + 1)

NoDict == [f \in Keys |-> Absent(f)]
NoBook == [f \in SchemaFields |-> Null(f)]
NoResponse ==
    [op |-> "none", status |-> "none", id |-> 0, book |-> NoBook,
     enriched |-> NoEnrichment]
\* A response: the operation, its outcome, the id it addressed or assigned, the
\* Book it returned and the enrichment result it was given.
Response(op, status, id, book, e) ==
    [op |-> op, status |-> status, id |-> id, book |-> book, enriched |-> e]
\* A request suspended at the enrichment wait: where it is and its locals.
Suspended(pc, id, book_dict, update_data) ==
    [pc |-> pc, book_id |-> id, book_dict |-> book_dict, update_data |-> update_data]

VARIABLES
    storage_type,   \* the backend get_storage selected
    books,          \* the persisted collection: "books" of the document, or the table rows
    next_id,        \* the persisted "next_id" counter of the document (file, jsonbin)
    req,            \* the bag of requests suspended at `await enrich_book_data`
    resp,           \* the response of the request that completed in the last step
    listed,         \* what the last GET /books returned
    file_state,     \* whether the backing file of FileRepository can be decoded
    enrich_call,    \* the last call of enrich_book_data: request outcomes and result
    environ,        \* the value of STORAGE_TYPE in the environment of the process
    stores,         \* the stores of the backends that are not selected now
    legacy_books,   \* books.json of the first version of the service: a flat list
    legacy_resp     \* the response of the last request to the first version

vars ==
    <<storage_type, books, next_id, req, resp, listed, file_state, enrich_call,
      environ, stores, legacy_books, legacy_resp>>

\* ---------------------------------------------------------------- schemas
\* Python truthiness of an enrichment value: None, 0 / 0.0 and "" are falsy.
Truthy(f, v) ==
    IF f \in IntFields THEN v \notin {NullI, AbsentI, 0}
                       ELSE v \notin {NullS, AbsentS, ""}

\* A stored text value that is a str (not None, not a missing key).
HasText(v) == v \notin {NullS, AbsentS}

\* Whether Book(**d) / FullBookData(**d) validates: required fields present and
\* not None, no unknown key (extra = "forbid"), cover_url a URL when given.
ValidBook(d) ==
    /\ \A f \in RequiredFields : d[f] \notin {Null(f), Absent(f)}
    /\ d["asdasd"] = AbsentI
    /\ d["cover_url"] \in Urls \cup {NullS, AbsentS}

\* The Book built from a valid dict: a missing optional field is None.
ToBook(d) == [f \in SchemaFields |-> IF d[f] = Absent(f) THEN Null(f) ELSE d[f]]

\* BookCreate.model_dump(): the six user fields, nothing else.
model_dump(body) == [f \in Keys |-> IF f \in UserFields THEN body[f] ELSE Absent(f)]

\* The rating column is Integer: a stored rating is rounded to a whole number.
IntegerColumn(r) == IF r \in {NullI, AbsentI} THEN NullI ELSE ((r + 5) \div 10) * 10

\* ---------------------------------------------------------------- repository
MaxOf(S) == CHOOSE m \in S : \A x \in S : x <= m
StoredIds == {books[i]["id"] : i \in DOMAIN books}

\* Index of the first stored record with this id, 0 when there is none.
FindIndex(bs, id) ==
    IF \E i \in DOMAIN bs : bs[i]["id"] = id
    THEN CHOOSE i \in DOMAIN bs :
            /\ bs[i]["id"] = id
            /\ \A j \in 1..(i - 1) : bs[j]["id"] # id
    ELSE 0

\* Mutant of get_next_id: the next id taken from the number of stored records.
get_next_id_by_count == Len(books) + 1

\* _get_next_id: the persisted counter (file, jsonbin) or max(id) + 1 (db).
get_next_id ==
    IF storage_type = "db"
    THEN IF books = <<>> THEN 1 ELSE MaxOf(StoredIds) + 1
    ELSE next_id

\* Mutant of update_next_id: the counter is written back unchanged.
update_next_id_unchanged(n) == n

\* Mutant of update_next_id: the counter skips a value.
update_next_id_by_two(n) == n + 2

\* Mutant of update_next_id: the counter goes back by one.
update_next_id_back(n) == n - 1

\* _update_next_id: the counter of the loaded document plus one.
update_next_id(n) == n + 1

\* The row DbPostgresRepository.save_data inserts for a validated dict.
DbRow(d) ==
    [f \in Keys |->
        IF f = "asdasd" THEN AbsentI
        ELSE IF f = "rating" THEN IntegerColumn(d[f])
        ELSE IF d[f] = Absent(f) THEN Null(f) ELSE d[f]]

\* The row DbPostgresRepository.update_data leaves for a validated dict.
DbUpdatedRow(d) ==
    [f \in Keys |->
        IF f = "asdasd" THEN AbsentI
        ELSE IF f = "rating" THEN IntegerColumn(d[f])
        ELSE IF f = "cover_url"
             THEN (IF d[f] \in {NullS, AbsentS} THEN StrOfNone ELSE d[f])
        ELSE IF d[f] = Absent(f) THEN Null(f) ELSE d[f]]

\* BookCrudService.get_by_id on a collection: the first record with the id,
\* validated into a Book; not found is an empty result, a record that does not
\* validate raises.
get_by_id(bs, id) ==
    LET i == FindIndex(bs, id) IN
    IF i = 0 THEN [status |-> "not_found", book |-> NoBook]
    ELSE IF ValidBook(bs[i]) THEN [status |-> "ok", book |-> ToBook(bs[i])]
    ELSE [status |-> "error", book |-> NoBook]

\* ---------------------------------------------------------------- service
\* Mutant of MergeEnrichment: every enrichment field is written, found or not.
MergeEnrichment_overwrite(d, e) ==
    [f \in Keys |-> IF f \in EnrichFields THEN e[f] ELSE d[f]]

\* Mutant of MergeEnrichment: the enrichment result is dropped.
MergeEnrichment_dropped(d, e) == d

\* The enrichment merge of create and update: a truthy value is written.
MergeEnrichment(d, e) ==
    [f \in Keys |-> IF f \in EnrichFields /\ Truthy(f, e[f]) THEN e[f] ELSE d[f]]

\* Mutant of UpdateDict: the supplied fields alone, also for file and jsonbin.
UpdateDict_no_overlay(current, body, id) ==
    [f \in Keys |->
        IF f = "id" THEN id
        ELSE IF f \in UserFields /\ body[f] # Absent(f) THEN body[f]
        ELSE Absent(f)]

\* update_data = book_update.model_dump(exclude_unset=True), laid over the
\* current record (file, jsonbin) or taken alone (db); the id is the path id.
UpdateDict(current, body, id) ==
    [f \in Keys |->
        IF f = "id" THEN id
        ELSE IF f \in UserFields /\ body[f] # Absent(f) THEN body[f]
        ELSE IF storage_type = "db" THEN Absent(f)
        ELSE current[f]]

\* The requests that are suspended now.
Waiting == BagToSet(req)
\* A request starts only when nothing is suspended, if requests are served one
\* after another.
MayStart(serial) == serial => Waiting = {}
\* One more request may suspend.
MaySuspend == BagCardinality(req) < MaxInFlight
Suspend(r) == req (+) SetToBag({r})
Resume(r) == req (-) SetToBag({r})

\* No GET /books was answered yet.
NoListing ==
    [status |-> "none", offset |-> 0, limit |-> 0, author |-> NullS,
     genre |-> NullS, availability |-> NullS, books |-> <<>>]

\* ---------------------------------------------------------------- enrichment
\* How an external request can fail: a connection error or a non-2xx status
\* (aiohttp.ClientError), a timeout (asyncio.TimeoutError), a body that is not
\* JSON (ValueError).
RequestFailures == {"client_error", "timeout", "bad_json"}

\* The search answer: a failure, no hit, a first hit that is not a JSON
\* object, or a hit that has or lacks a work key, a cover id, edition keys.
SearchOutcomes ==
    { [kind |-> k, key |-> FALSE, cover_i |-> FALSE, edition_key |-> FALSE] :
        k \in RequestFailures \cup {"no_hit", "doc_not_object"} }
    \cup { [kind |-> "hit", key |-> a, cover_i |-> b, edition_key |-> c] :
             a \in BOOLEAN, b \in BOOLEAN, c \in BOOLEAN }
\* The work document: with or without its "key".
DetailsOutcomes == RequestFailures \cup {"ok", "no_key"}
\* The editions: none with a description, one with a text description, one
\* whose description is a plain string, one whose text value is not a string.
EditionsOutcomes == RequestFailures \cup {"none", "text", "plain", "not_text"}
\* The ratings summary: without an average, or with the average 4.8.
RatingsOutcomes == RequestFailures \cup {"none", "value"}
\* The HEAD probe of the edition cover.
ProbeOutcomes == {"ok", "not_found", "error"}

EnrichOutcomes ==
    [search : SearchOutcomes, details : DetailsOutcomes,
     editions : EditionsOutcomes, ratings : RatingsOutcomes, probe : ProbeOutcomes]

\* A description that is not a str: EnrichBookData does not validate.
NotAStr == "<not a str>"

\* make_request: the parsed body, None on ClientError and ValueError; a
\* timeout is neither and leaves make_request as an exception.
make_request(outcome) ==
    CASE outcome = "timeout" -> "raise"
      [] outcome \in {"client_error", "bad_json"} -> "None"
      [] OTHER -> outcome

\* `except Exception: return None` around a request.
OrNone(x) == IF x = "raise" THEN "None" ELSE x

\* search_book: the first document of a search with hits, else None.
search_book(kind) ==
    IF OrNone(make_request(kind)) \in {"None", "no_hit"} THEN "None"
    ELSE OrNone(make_request(kind))

get_book_details(outcome) == OrNone(make_request(outcome))

\* get_book_description: the value of the first text description; a missing
\* "key" or a description of another shape raises inside and gives None.
get_book_description(book_details, outcome) ==
    IF book_details = "no_key" THEN NullS
    ELSE CASE OrNone(make_request(outcome)) = "text" -> "text"
           [] OrNone(make_request(outcome)) = "not_text" -> NotAStr
           [] OTHER -> NullS

get_book_rating(outcome) ==
    IF OrNone(make_request(outcome)) = "value" THEN 48 ELSE NullI

\* get_cover_url: the edition cover URL when the probe answers 200.
get_cover_url(outcome) == IF outcome = "ok" THEN EditionCoverUrl ELSE NullS

\* Mutant of requests_sent: a search that found nothing is sent again.
requests_sent_retried(o) ==
    IF search_book(o.search.kind) = "None" THEN <<"search", "search">>
    ELSE <<"search">>

\* The external requests one call of enrich_book_data sends, in order: the search
\* always; the work document for a hit with a work key; editions and ratings
\* after a work document was received (editions only if it has its "key");
\* the cover probe for a hit without cover id that lists an edition.
requests_sent(o) ==
    LET hit == search_book(o.search.kind)
        dict == hit \notin {"None", "doc_not_object"}
        book_details == IF o.search.key THEN get_book_details(o.details) ELSE "None"
    IN
    <<"search">>
    \o (IF dict /\ o.search.key THEN <<"details">> ELSE <<>>)
    \o (IF dict /\ book_details \notin {"None", "no_key"} THEN <<"editions">> ELSE <<>>)
    \o (IF dict /\ book_details # "None" THEN <<"ratings">> ELSE <<>>)
    \o (IF dict /\ ~o.search.cover_i /\ o.search.edition_key THEN <<"probe">> ELSE <<>>)

\* The body of the try block of enrich_book_data: what it returns, or that
\* it raised.
enrich_steps(o) ==
    LET hit == search_book(o.search.kind)
        book_details == IF o.search.key THEN get_book_details(o.details) ELSE "None"
        description == IF book_details # "None"
                       THEN get_book_description(book_details, o.editions)
                       ELSE NullS
        rating == IF book_details # "None" THEN get_book_rating(o.ratings) ELSE NullI
        cover_url == IF o.search.cover_i THEN CoverUrl
                     ELSE IF o.search.edition_key THEN get_cover_url(o.probe)
                     ELSE NullS
    IN
    IF hit = "None" THEN [raised |-> FALSE, data |-> NoEnrichment]
    ELSE IF hit = "doc_not_object" \/ description = NotAStr
    THEN \* .get on something that is not a dict, or the validation error of
         \* EnrichBookData
         [raised |-> TRUE, data |-> NoEnrichment]
    ELSE [raised |-> FALSE,
          data |-> [cover_url |-> cover_url, description |-> description,
                    rating |-> rating]]

\* Mutant of enrich_book_data: without the except around the body.
enrich_book_data_uncaught(o) == enrich_steps(o)

\* enrich_book_data: the body, and the empty result for whatever it raises.
enrich_book_data(o) ==
    IF enrich_steps(o).raised THEN [raised |-> FALSE, data |-> NoEnrichment]
    ELSE enrich_steps(o)

NoOutcome ==
    [search |-> [kind |-> "none", key |-> FALSE, cover_i |-> FALSE,
                 edition_key |-> FALSE],
     details |-> "none", editions |-> "none", ratings |-> "none", probe |-> "none"]
\* No call of enrich_book_data was made.
NoCall ==
    [outcome |-> NoOutcome, status |-> "none", result |-> NoEnrichment, sent |-> <<>>]
\* The variables the catalog requests never touch.
Aside ==
    <<listed, file_state, enrich_call, environ, stores, legacy_books, legacy_resp>>
\* The state of the first version of the service.
Legacy == <<legacy_books, legacy_resp>>
\* No request to the first version was answered yet.
NoLegacyResponse == [op |-> "none", status |-> "none", id |-> 0, updated_fields |-> <<>>]
\* The selector and the stores behind it.
Selection == <<environ, stores>>
\* A store nothing was written to.
Unopened == [books |-> <<>>, next_id |-> 1]

Init ==
    /\ storage_type \in StorageType
    /\ books = <<>>
    /\ next_id = 1
    /\ req = EmptyBag
    /\ resp = NoResponse
    /\ listed = NoListing
    /\ file_state = "ok"
    /\ enrich_call = NoCall
    /\ environ = storage_type
    /\ stores = [t \in StorageType |-> Unopened]
    /\ legacy_books = <<>>
    /\ legacy_resp = NoLegacyResponse

\* GET /books/{book_id}
GetBook(serial, id) ==
    /\ MayStart(serial)
    /\ LET r == get_by_id(books, id) IN
       resp' = Response("get", r.status, id, r.book, NoEnrichment)
    /\ UNCHANGED <<storage_type, books, next_id, req>>

\* POST /books up to the enrichment call: dump the body, take the next id.
CreateBegin(serial, body) ==
    /\ MayStart(serial)
    /\ MaySuspend
    /\ get_next_id <= MaxId
    /\ req' = Suspend(Suspended("create_wait", get_next_id,
                                [model_dump(body) EXCEPT !["id"] = get_next_id],
                                NoUpdate))
    /\ resp' = NoResponse
    /\ UNCHANGED <<storage_type, books, next_id>>

\* Mutant of CreateResume: the document is written with the new record alone.
CreateResume_alone(r, e) ==
    /\ r.pc = "create_wait"
    /\ books' = <<MergeEnrichment(r.book_dict, e)>>
    /\ resp' = Response("create", "ok", r.book_id,
                        ToBook(MergeEnrichment(r.book_dict, e)), e)
    /\ next_id' = IF storage_type = "db" THEN next_id ELSE update_next_id(next_id)
    /\ req' = Resume(r)
    /\ UNCHANGED storage_type

\* POST /books after the enrichment call returned e: merge, persist, return.
CreateResume(r, e) ==
    /\ r.pc = "create_wait"
    /\ LET book_dict == MergeEnrichment(r.book_dict, e)
           id == r.book_id
       IN
       IF storage_type = "db"
       THEN IF id \in StoredIds
            THEN \* primary key violation: rolled back and raised
                 /\ books' = books
                 /\ resp' = Response("create", "error", id, NoBook, e)
            ELSE /\ books' = Append(books, DbRow(book_dict))
                 /\ resp' = Response("create", "ok", id, ToBook(book_dict), e)
       ELSE /\ books' = Append(books, book_dict)
            /\ resp' = Response("create", "ok", id, ToBook(book_dict), e)
    /\ next_id' = IF storage_type = "db" THEN next_id ELSE update_next_id(next_id)
    /\ req' = Resume(r)
    /\ UNCHANGED storage_type

\* Mutant of PersistUpdate: the new record is written over every stored one.
PersistUpdate_everywhere(bs, book_dict, id) ==
    [books |-> [i \in DOMAIN bs |-> book_dict], status |-> "ok",
     book |-> ToBook(book_dict)]

\* The write at the end of update: replace the first record with the id and
\* save (file, jsonbin), or update_data (db), then build the returned Book.
PersistUpdate(bs, book_dict, id) ==
    LET i == FindIndex(bs, id) IN
    IF storage_type = "db"
    THEN IF ~ValidBook(book_dict)
         THEN \* FullBookData(**data) fails: ValueError, rolled back
              [books |-> bs, status |-> "error", book |-> NoBook]
         ELSE IF i = 0
         THEN [books |-> bs, status |-> "not_found", book |-> NoBook]
         ELSE LET row == DbUpdatedRow(book_dict) IN
              IF ValidBook(row)
              THEN [books |-> [bs EXCEPT ![i] = row], status |-> "ok",
                    book |-> ToBook(row)]
              ELSE [books |-> [bs EXCEPT ![i] = row], status |-> "error",
                    book |-> NoBook]
    ELSE IF i = 0
         THEN [books |-> bs, status |-> "not_found", book |-> NoBook]
         ELSE IF ValidBook(book_dict)
         THEN [books |-> [bs EXCEPT ![i] = book_dict], status |-> "ok",
               book |-> ToBook(book_dict)]
         ELSE \* saved, then Book(**book_dict) raises
              [books |-> [bs EXCEPT ![i] = book_dict], status |-> "error",
               book |-> NoBook]

\* PUT /books/{book_id} that never reaches the enrichment call: the id is not
\* stored, or the body does not set title.
UpdateBook(serial, id, body) ==
    /\ MayStart(serial)
    /\ LET i == FindIndex(books, id) IN
       /\ i = 0 \/ body["title"] = AbsentS
       /\ IF i = 0
          THEN /\ books' = books
               /\ resp' = Response("update", "not_found", id, NoBook, NoEnrichment)
          ELSE LET w == PersistUpdate(books, UpdateDict(books[i], body, id), id) IN
               /\ books' = w.books
               /\ resp' = Response("update", w.status, id, w.book, NoEnrichment)
    /\ UNCHANGED <<storage_type, next_id, req>>

\* PUT /books/{book_id} with title in the body, up to the enrichment call.
UpdateBegin(serial, id, body) ==
    /\ MayStart(serial)
    /\ MaySuspend
    /\ FindIndex(books, id) # 0
    /\ body["title"] # AbsentS
    /\ req' = Suspend(Suspended("update_wait", id,
                                UpdateDict(books[FindIndex(books, id)], body, id),
                                body))
    /\ resp' = NoResponse
    /\ UNCHANGED <<storage_type, books, next_id>>

\* PUT /books/{book_id} after the enrichment call returned e.
UpdateResume(r, e) ==
    /\ r.pc = "update_wait"
    /\ LET id == r.book_id
           book_dict == [MergeEnrichment(r.book_dict, e) EXCEPT !["asdasd"] = 5]
           w == PersistUpdate(books, book_dict, id)
       IN
       /\ books' = w.books
       /\ resp' = Response("update", w.status, id, w.book, e)
    /\ req' = Resume(r)
    /\ UNCHANGED <<storage_type, next_id>>

\* PUT /books/{book_id} without a request body: book_update is None, 400.
UpdateBookWithoutBody(serial, id) ==
    /\ MayStart(serial)
    /\ resp' = Response("update", "bad_request", id, NoBook, NoEnrichment)
    /\ UNCHANGED <<storage_type, books, next_id, req>>

\* Mutant of Without: the collection is saved as it was loaded.
Without_nothing(bs, id) == bs

\* Every record whose id is not the given one, in order.
Without(bs, id) == SelectSeq(bs, LAMBDA b : b["id"] # id)

\* Mutant of delete: the removal without the existence check.
delete_unchecked(bs, id) == [books |-> Without(bs, id), status |-> "ok"]

\* BookCrudService.delete on a collection: get_by_id first (not found is
\* False, a record that does not validate raises), then remove and save.
delete(bs, id) ==
    LET r == get_by_id(bs, id) IN
    IF r.status = "ok" THEN [books |-> Without(bs, id), status |-> "ok"]
    ELSE [books |-> bs, status |-> r.status]

\* DELETE /books/{book_id}
DeleteBook(serial, id) ==
    /\ MayStart(serial)
    /\ books' = delete(books, id).books
    /\ resp' = Response("delete", delete(books, id).status, id, NoBook, NoEnrichment)
    /\ UNCHANGED <<storage_type, next_id, req>>

\* ---------------------------------------------------------------- list
\* Longest collection the list requests are tried on.
MaxListed == 3

\* str.lower() on the texts that occur as author or genre.
lower(s) ==
    CASE s = "Tolstoy" -> "tolstoy"
      [] s = "Dostoevsky" -> "dostoevsky"
      [] s = "Novel" -> "novel"
      [] s = "Herbert" -> "herbert"
      [] s = "SF" -> "sf"
      [] OTHER -> s

\* Query parameters of GET /books (BookQueryParams); None is no filter.
AuthorFilters == {NullS, "Tolstoy", "tolstoy"}
GenreFilters == {NullS, "novel"}
AvailabilityFilters == {NullS, "borrowed"}
ListOffsets == {0, 1}
ListLimits == {1, 10}

\* `if author:` and its like: the filter is given and not empty.
Given(v) == v \notin {NullS, ""}

Slice(q, offset, limit) ==
    SubSeq(q, offset + 1, IF offset + limit < Len(q) THEN offset + limit ELSE Len(q))

\* BookCrudService.get_all over a collection. db: filter_by compares the
\* columns for equality, offset and limit are part of the query, every row is
\* converted to a Book. file, jsonbin: author and genre are compared in lower
\* case, every record that passes is validated into a Book, the slice is
\* taken at the end.
get_all(bs, offset, limit, author, genre, availability) ==
    IF storage_type = "db"
    THEN LET rows == SelectSeq(bs, LAMBDA b :
                        /\ Given(author) => b["author"] = author
                        /\ Given(genre) => b["genre"] = genre
                        /\ Given(availability) => b["availability"] = availability)
             page == Slice(rows, offset, limit)
         IN IF \A i \in DOMAIN page : ValidBook(page[i])
            THEN [status |-> "ok", books |-> [i \in DOMAIN page |-> ToBook(page[i])]]
            ELSE [status |-> "error", books |-> <<>>]
    ELSE LET \* the loop stops with an exception at a record it cannot handle
             Raises(b) ==
                \/ Given(author) /\ ~HasText(b["author"])
                \/ Given(author) /\ lower(b["author"]) = lower(author)
                        /\ Given(genre) /\ ~HasText(b["genre"])
             Passes(b) ==
                /\ Given(author) => lower(b["author"]) = lower(author)
                /\ Given(genre) => lower(b["genre"]) = lower(genre)
                /\ Given(availability) => b["availability"] = availability
             passed == SelectSeq(bs, Passes)
         IN IF \E i \in DOMAIN bs : Raises(bs[i]) \/ (Passes(bs[i]) /\ ~ValidBook(bs[i]))
            THEN [status |-> "error", books |-> <<>>]
            ELSE [status |-> "ok",
                  books |-> Slice([i \in DOMAIN passed |-> ToBook(passed[i])],
                                  offset, limit)]

\* GET /books
GetBooks(offset, limit, author, genre, availability) ==
    /\ LET r == get_all(books, offset, limit, author, genre, availability) IN
       /\ listed' = [status |-> r.status, offset |-> offset, limit |-> limit,
                     author |-> author, genre |-> genre,
                     availability |-> availability, books |-> r.books]
       /\ resp' = Response("list", r.status, 0, NoBook, NoEnrichment)
    /\ UNCHANGED <<storage_type, books, next_id, req, file_state, enrich_call>>
    /\ UNCHANGED <<Selection, Legacy>>

\* The payloads the listed collections were created from.
ListedBodies ==
    { [title |-> "Dune", author |-> a, publication_year |-> 1965,
       genre |-> "Novel", pages |-> 412, availability |-> "available"] :
        a \in {"Tolstoy", "tolstoy", "Dostoevsky"} }

\* The record a create without enrichment result stores under this id.
Created(body, id) ==
    LET d == [model_dump(body) EXCEPT !["id"] = id] IN
    IF storage_type = "db" THEN DbRow(d) ELSE d

\* A collection left by up to MaxListed creates, listed over and over.
InitList ==
    /\ storage_type \in StorageType
    /\ \E n \in 0..MaxListed :
        \E bodies \in [1..n -> ListedBodies] :
            /\ books = [i \in 1..n |-> Created(bodies[i], i)]
            /\ next_id = n + 1
    /\ req = EmptyBag
    /\ resp = NoResponse
    /\ listed = NoListing
    /\ file_state = "ok"
    /\ enrich_call = NoCall
    /\ environ = storage_type
    /\ stores = [t \in StorageType |-> Unopened]
    /\ legacy_books = <<>>
    /\ legacy_resp = NoLegacyResponse

NextList ==
    \E offset \in ListOffsets, limit \in ListLimits, author \in AuthorFilters,
       genre \in GenreFilters, availability \in AvailabilityFilters :
        GetBooks(offset, limit, author, genre, availability)

SpecList == InitList /\ [][NextList]_vars

\* Requests interleave at the enrichment wait.
Next ==
    \/ \E id \in Ids : GetBook(FALSE, id) /\ UNCHANGED Aside
    \/ \E body \in CreateBodies : CreateBegin(FALSE, body) /\ UNCHANGED Aside
    \/ \E r \in Waiting, e \in InterleavedEnrichResults : CreateResume(r, e) /\ UNCHANGED Aside
    \/ \E id \in Ids, body \in InterleavedUpdateBodies : UpdateBook(FALSE, id, body) /\ UNCHANGED Aside
    \/ \E id \in Ids, body \in InterleavedUpdateBodies : UpdateBegin(FALSE, id, body) /\ UNCHANGED Aside
    \/ \E r \in Waiting, e \in InterleavedEnrichResults : UpdateResume(r, e) /\ UNCHANGED Aside
    \/ \E id \in Ids : DeleteBook(FALSE, id) /\ UNCHANGED Aside

Spec == Init /\ [][Next]_vars

\* Requests are served one after another.
NextSeq ==
    \/ \E id \in Ids : GetBook(TRUE, id) /\ UNCHANGED Aside
    \/ \E body \in CreateBodies : CreateBegin(TRUE, body) /\ UNCHANGED Aside
    \/ \E r \in Waiting, e \in EnrichResults : CreateResume(r, e) /\ UNCHANGED Aside
    \/ \E id \in Ids, body \in UpdateBodies : UpdateBook(TRUE, id, body) /\ UNCHANGED Aside
    \/ \E id \in Ids, body \in UpdateBodies : UpdateBegin(TRUE, id, body) /\ UNCHANGED Aside
    \/ \E r \in Waiting, e \in EnrichResults : UpdateResume(r, e) /\ UNCHANGED Aside
    \/ \E id \in Ids : UpdateBookWithoutBody(TRUE, id) /\ UNCHANGED Aside
    \/ \E id \in Ids : DeleteBook(TRUE, id) /\ UNCHANGED Aside

SpecSeq == Init /\ [][NextSeq]_vars

\* ---------------------------------------------------------------- enrichment call
\* enrich_book_data runs to its end under the request outcomes it was given.
EnrichBookData ==
    /\ enrich_call.status = "pending"
    /\ LET r == enrich_book_data(enrich_call.outcome) IN
       enrich_call' = [enrich_call EXCEPT
                            !.status = IF r.raised THEN "raised" ELSE "returned",
                            !.result = r.data,
                            !.sent = requests_sent(enrich_call.outcome)]
    /\ UNCHANGED <<storage_type, books, next_id, req, resp, listed, file_state>>
    /\ UNCHANGED <<Selection, Legacy>>

\* One call of enrich_book_data for every combination of request outcomes.
InitEnrich ==
    /\ storage_type = "file"
    /\ books = <<>>
    /\ next_id = 1
    /\ req = EmptyBag
    /\ resp = NoResponse
    /\ listed = NoListing
    /\ file_state = "ok"
    /\ \E o \in EnrichOutcomes :
            enrich_call = [outcome |-> o, status |-> "pending",
                           result |-> NoEnrichment, sent |-> <<>>]
    /\ environ = storage_type
    /\ stores = [t \in StorageType |-> Unopened]
    /\ legacy_books = <<>>
    /\ legacy_resp = NoLegacyResponse

NextEnrich == EnrichBookData

SpecEnrich == InitEnrich /\ [][NextEnrich]_vars

\* ---------------------------------------------------------------- storage failures
\* The requests once more, served one after another, with a store that may
\* fail: a remote read or write answered non-200, a relational query or commit
\* that raises, a backing file that cannot be decoded.

\* How the storage calls of one handler step end: the first read (the lookup
\* of the record or of the next id), the load before the write, the write.
IoOutcomes == [lookup : BOOLEAN, load : BOOLEAN, write : BOOLEAN]

\* Ways the backing file can be undecodable: not JSON (json.JSONDecodeError),
\* or bytes that are not UTF-8 (UnicodeDecodeError).
Undecodable == {"bad_json", "bad_bytes"}

EmptyDocument == [status |-> "ok", books |-> <<>>, next_id |-> 1]

\* load_data of FileRepository and JsonBinRepository. file: the document, the
\* empty document on JSONDecodeError, any other exception goes to the caller.
\* jsonbin: the document on 200, the empty document otherwise.
load_data(ok) ==
    IF storage_type = "file"
    THEN CASE file_state = "ok" ->
                [status |-> "ok", books |-> books, next_id |-> next_id]
           [] file_state = "bad_json" -> EmptyDocument
           [] OTHER -> [status |-> "error", books |-> <<>>, next_id |-> 1]
    ELSE IF ok THEN [status |-> "ok", books |-> books, next_id |-> next_id]
         ELSE EmptyDocument

\* save_data of FileRepository and JsonBinRepository: the file is rewritten;
\* a remote write answered non-200 is logged and dropped.
save_data(ok, bs, n) ==
    IF storage_type = "jsonbin" /\ ~ok
    THEN UNCHANGED <<books, next_id, file_state>>
    ELSE /\ books' = bs
         /\ next_id' = n
         /\ file_state' = "ok"

\* BookCrudService.get_by_id over a store that may fail: get_data_by_id
\* returns None when its query raises (db).
Fetch(ok, id) ==
    IF storage_type = "db"
    THEN IF ok THEN get_by_id(books, id)
         ELSE [status |-> "not_found", book |-> NoBook]
    ELSE LET d == load_data(ok) IN
         IF d.status = "error" THEN [status |-> "error", book |-> NoBook]
         ELSE get_by_id(d.books, id)

\* The collection the lookup at the start of update goes through.
LookedUp(ok) ==
    IF storage_type = "db"
    THEN [status |-> "ok", books |-> IF ok THEN books ELSE <<>>]
    ELSE [status |-> load_data(ok).status, books |-> load_data(ok).books]

\* GET /books/{book_id}
GetBookFaulty(id, io) ==
    /\ Waiting = {}
    /\ resp' = Response("get", Fetch(io.lookup, id).status, id,
                        Fetch(io.lookup, id).book, NoEnrichment)
    /\ listed' = NoListing
    /\ UNCHANGED <<storage_type, books, next_id, req, file_state, enrich_call>>

\* GET /books with the default query; load_data of the relational repository
\* returns [] when its query raises.
GetBooksFaulty(io) ==
    /\ Waiting = {}
    /\ LET d == LookedUp(io.load)
           r == IF d.status = "error" THEN [status |-> "error", books |-> <<>>]
                ELSE get_all(d.books, 0, 10, NullS, NullS, NullS)
       IN
       /\ listed' = [NoListing EXCEPT !.status = r.status, !.limit = 10,
                                      !.books = r.books]
       /\ resp' = Response("list", r.status, 0, NoBook, NoEnrichment)
    /\ UNCHANGED <<storage_type, books, next_id, req, file_state, enrich_call>>

\* POST /books up to the enrichment call; _get_next_id of the relational
\* repository returns 1 when its query raises.
CreateBeginFaulty(body, io) ==
    /\ Waiting = {}
    /\ Len(books) < MaxId
    /\ next_id <= MaxId
    /\ LET d == load_data(io.lookup)
           failed == storage_type # "db" /\ d.status = "error"
           id == IF storage_type = "db"
                 THEN (IF io.lookup THEN get_next_id ELSE 1)
                 ELSE d.next_id
       IN
       /\ id <= MaxId
       /\ IF failed
          THEN /\ req' = req
               /\ resp' = Response("create", "error", 0, NoBook, NoEnrichment)
          ELSE /\ req' = Suspend(Suspended("create_wait", id,
                                           [model_dump(body) EXCEPT !["id"] = id],
                                           NoUpdate))
               /\ resp' = NoResponse
    /\ listed' = NoListing
    /\ UNCHANGED <<storage_type, books, next_id, file_state, enrich_call>>

\* POST /books after the enrichment call returned e.
CreateResumeFaulty(r, e, io) ==
    /\ r.pc = "create_wait"
    /\ LET book_dict == MergeEnrichment(r.book_dict, e)
           id == r.book_id
           d == load_data(io.load)
       IN
       IF storage_type = "db"
       THEN /\ IF ~io.write \/ id \in StoredIds
               THEN \* the insert or the commit raises: rolled back and raised
                    /\ books' = books
                    /\ resp' = Response("create", "error", id, NoBook, e)
               ELSE /\ books' = Append(books, DbRow(book_dict))
                    /\ resp' = Response("create", "ok", id, ToBook(book_dict), e)
            /\ UNCHANGED <<next_id, file_state>>
       ELSE IF d.status = "error"
            THEN /\ resp' = Response("create", "error", id, NoBook, e)
                 /\ UNCHANGED <<books, next_id, file_state>>
            ELSE /\ save_data(io.write, Append(d.books, book_dict),
                              update_next_id(d.next_id))
                 /\ resp' = Response("create", "ok", id, ToBook(book_dict), e)
    /\ req' = Resume(r)
    /\ listed' = NoListing
    /\ UNCHANGED <<storage_type, enrich_call>>

\* The end of update over a store that may fail: update_data (db), or load,
\* replace, save and build the returned Book (file, jsonbin).
UpdateWrite(book_dict, id, io, e) ==
    IF storage_type = "db"
    THEN LET w == IF io.write THEN PersistUpdate(books, book_dict, id)
                  ELSE [books |-> books, status |-> "error", book |-> NoBook]
         IN
         /\ books' = w.books
         /\ resp' = Response("update", w.status, id, w.book, e)
         /\ UNCHANGED <<next_id, file_state>>
    ELSE LET d == load_data(io.load)
             w == PersistUpdate(d.books, book_dict, id)
         IN
         IF d.status = "error"
         THEN /\ resp' = Response("update", "error", id, NoBook, e)
              /\ UNCHANGED <<books, next_id, file_state>>
         ELSE /\ IF w.status = "not_found"
                 THEN UNCHANGED <<books, next_id, file_state>>
                 ELSE save_data(io.write, w.books, d.next_id)
              /\ resp' = Response("update", w.status, id, w.book, e)

\* PUT /books/{book_id} that never reaches the enrichment call.
UpdateBookFaulty(id, body, io) ==
    /\ Waiting = {}
    /\ LET d == LookedUp(io.lookup)
           i == FindIndex(d.books, id)
       IN
       /\ d.status = "error" \/ i = 0 \/ body["title"] = AbsentS
       /\ IF d.status = "error" \/ i = 0
          THEN /\ resp' = Response("update",
                                   IF i = 0 /\ d.status = "ok" THEN "not_found"
                                   ELSE "error",
                                   id, NoBook, NoEnrichment)
               /\ UNCHANGED <<books, next_id, file_state>>
          ELSE UpdateWrite(UpdateDict(d.books[i], body, id), id, io, NoEnrichment)
    /\ listed' = NoListing
    /\ UNCHANGED <<storage_type, req, enrich_call>>

\* PUT /books/{book_id} with title in the body, up to the enrichment call.
UpdateBeginFaulty(id, body, io) ==
    /\ Waiting = {}
    /\ LET d == LookedUp(io.lookup)
           i == FindIndex(d.books, id)
       IN
       /\ d.status = "ok"
       /\ i # 0
       /\ body["title"] # AbsentS
       /\ req' = Suspend(Suspended("update_wait", id,
                                   UpdateDict(d.books[i], body, id), body))
    /\ resp' = NoResponse
    /\ listed' = NoListing
    /\ UNCHANGED <<storage_type, books, next_id, file_state, enrich_call>>

\* PUT /books/{book_id} after the enrichment call returned e.
UpdateResumeFaulty(r, e, io) ==
    /\ r.pc = "update_wait"
    /\ UpdateWrite([MergeEnrichment(r.book_dict, e) EXCEPT !["asdasd"] = 5],
                   r.book_id, io, e)
    /\ req' = Resume(r)
    /\ listed' = NoListing
    /\ UNCHANGED <<storage_type, enrich_call>>

\* DELETE /books/{book_id}; delete_data of the relational repository logs and
\* swallows what its query or commit raises.
DeleteBookFaulty(id, io) ==
    /\ Waiting = {}
    /\ LET g == Fetch(io.lookup, id)
           d == load_data(io.load)
       IN
       IF g.status # "ok"
       THEN /\ resp' = Response("delete", g.status, id, NoBook, NoEnrichment)
            /\ UNCHANGED <<books, next_id, file_state>>
       ELSE /\ resp' = Response("delete", "ok", id, NoBook, NoEnrichment)
            /\ IF storage_type = "db"
               THEN /\ books' = IF io.write THEN Without(books, id) ELSE books
                    /\ UNCHANGED <<next_id, file_state>>
               ELSE save_data(io.write, Without(d.books, id), d.next_id)
    /\ listed' = NoListing
    /\ UNCHANGED <<storage_type, req, enrich_call>>

\* The backing file is damaged from outside: what it held is gone.
CorruptFile(kind) ==
    /\ storage_type = "file"
    /\ file_state = "ok"
    /\ file_state' = kind
    /\ books' = <<>>
    /\ next_id' = 1
    /\ resp' = NoResponse
    /\ listed' = NoListing
    /\ UNCHANGED <<storage_type, req, enrich_call>>

\* The input sets are the small ones of the interleaved specification.
NextFaulty ==
    \/ \E id \in Ids, io \in IoOutcomes : GetBookFaulty(id, io) /\ UNCHANGED <<Selection, Legacy>>
    \/ \E io \in IoOutcomes : GetBooksFaulty(io) /\ UNCHANGED <<Selection, Legacy>>
    \/ \E body \in CreateBodies, io \in IoOutcomes :
            CreateBeginFaulty(body, io) /\ UNCHANGED <<Selection, Legacy>>
    \/ \E r \in Waiting, e \in InterleavedEnrichResults, io \in IoOutcomes :
            CreateResumeFaulty(r, e, io) /\ UNCHANGED <<Selection, Legacy>>
    \/ \E id \in Ids, body \in InterleavedUpdateBodies, io \in IoOutcomes :
            UpdateBookFaulty(id, body, io) /\ UNCHANGED <<Selection, Legacy>>
    \/ \E id \in Ids, body \in InterleavedUpdateBodies, io \in IoOutcomes :
            UpdateBeginFaulty(id, body, io) /\ UNCHANGED <<Selection, Legacy>>
    \/ \E r \in Waiting, e \in InterleavedEnrichResults, io \in IoOutcomes :
            UpdateResumeFaulty(r, e, io) /\ UNCHANGED <<Selection, Legacy>>
    \/ \E id \in Ids, io \in IoOutcomes : DeleteBookFaulty(id, io) /\ UNCHANGED <<Selection, Legacy>>
    \/ \E kind \in Undecodable : CorruptFile(kind) /\ UNCHANGED <<Selection, Legacy>>

SpecFaulty == Init /\ [][NextFaulty]_vars

\* ---------------------------------------------------------------- storage selection
\* STORAGE_TYPE is set to another value while the process runs.
Setenv(v) ==
    /\ v # environ
    /\ environ' = v
    /\ UNCHANGED <<storage_type, books, next_id, req, resp, listed, file_state,
                   enrich_call, stores, legacy_books, legacy_resp>>

\* get_storage, resolved for every request before its handler runs: it reads
\* STORAGE_TYPE and builds the repository of that backend. A value other than
\* the one the last request was served with puts the store of that backend
\* in front of the handler.
GetStorage ==
    /\ MayStart(TRUE)
    /\ environ # storage_type
    /\ storage_type' = environ
    /\ books' = stores[environ].books
    /\ next_id' = stores[environ].next_id
    /\ stores' = [stores EXCEPT ![storage_type] = [books |-> books, next_id |-> next_id],
                                ![environ] = Unopened]
    /\ resp' = NoResponse
    /\ UNCHANGED <<req, listed, file_state, enrich_call, environ>>
    /\ UNCHANGED Legacy

\* The handler runs on the repository get_storage has just built.
Selected == environ = storage_type

\* Requests served one after another by a process whose STORAGE_TYPE may be
\* changed between them.
NextSelect ==
    \/ \E v \in StorageType : Setenv(v)
    \/ GetStorage
    \/ \E id \in Ids :
            Selected /\ GetBook(TRUE, id) /\ UNCHANGED Aside
    \/ \E body \in CreateBodies :
            Selected /\ CreateBegin(TRUE, body) /\ UNCHANGED Aside
    \/ \E r \in Waiting, e \in InterleavedEnrichResults :
            CreateResume(r, e) /\ UNCHANGED Aside
    \/ \E id \in Ids :
            Selected /\ DeleteBook(TRUE, id) /\ UNCHANGED Aside

SpecSelect == Init /\ [][NextSelect]_vars

\* ---------------------------------------------------------------- first version
\* The first version of the service (src/main.py, src/routers/books.py): a
\* flat list of records in books.json, handlers that run from read to write
\* without a suspension point.

\* Most records the list is grown to, and the largest id handed out.
MaxLegacy == 2
MaxLegacyId == 3

\* The fields of BookUpdate, in declaration order.
LegacyFields == <<"title", "author", "year", "genre", "pages", "available">>
LegacyFieldSet == {LegacyFields[i] : i \in DOMAIN LegacyFields}
LegacyNumbers == {"year", "pages"}
\* None, and a field the body does not set, for a field of BookUpdate.
LNull(f) == IF f \in LegacyNumbers THEN NullI ELSE NullS
LAbsent(f) == IF f \in LegacyNumbers THEN AbsentI ELSE AbsentS
\* skip_value, the placeholder text of the schema example.
SkipValue == "<skip_value>"

\* POST bodies (BookFull): the id of the body is required and may be anything.
LegacyBodyIds == {0, 1, 7}
LegacyAddBodies ==
    { [id |-> i, title |-> "Dune", author |-> "Herbert", year |-> 1965,
       genre |-> "SF", pages |-> 412, available |-> "true"] : i \in LegacyBodyIds }
\* What fetch_book_details returned: {} or the details.
ExtraData == {"{}", "details"}

NoLegacyUpdate == [f \in LegacyFieldSet |-> LAbsent(f)]
\* PUT bodies (BookUpdate): nothing set; one field set to null; one field set
\* to the placeholder or 0; and bodies that mix values, placeholders, zeros
\* and nulls.
LegacyUpdateBodies ==
    {NoLegacyUpdate}
    \cup { [NoLegacyUpdate EXCEPT ![f] = LNull(f)] : f \in LegacyFieldSet }
    \cup { [NoLegacyUpdate EXCEPT ![f] = SkipValue] : f \in {"title", "author", "genre"} }
    \cup { [NoLegacyUpdate EXCEPT ![f] = 0] : f \in LegacyNumbers }
    \cup { [title |-> "Solaris", author |-> SkipValue, year |-> 0,
            genre |-> NullS, pages |-> 204, available |-> "false"],
           [title |-> SkipValue, author |-> "Lem", year |-> 1961,
            genre |-> "Novel", pages |-> 0, available |-> NullS],
           [title |-> "Solaris", author |-> "Lem", year |-> 1961,
            genre |-> "Novel", pages |-> 204, available |-> "false"] }

LegacyIds == 1..(MaxLegacyId + 1)

\* The variables of the current version, which the first version never sees.
Catalog ==
    <<storage_type, books, next_id, req, resp, listed, file_state, enrich_call,
      environ, stores>>

\* Mutant of new_id: the number of stored records plus one.
new_id_by_count(bs) == Len(bs) + 1

\* new_id = max(b["id"] for b in books) + 1 if books else 1
new_id(bs) ==
    IF bs = <<>> THEN 1 ELSE MaxOf({bs[i]["id"] : i \in DOMAIN bs}) + 1

\* Mutant of applied: only null is skipped.
applied_unless_null(field, value) == value # LNull(field)

\* The tests of the update loop: a value is written unless it is None, the
\* placeholder in title, author or genre, or 0 in year or pages.
applied(field, value) ==
    /\ value # LNull(field)
    /\ ~(field \in {"title", "author", "genre"} /\ value = SkipValue)
    /\ ~(field \in {"year", "pages"} /\ value = 0)

\* GET /books/{book_id}
get_book(book_id) ==
    /\ legacy_resp' = [op |-> "get",
                       status |-> IF FindIndex(legacy_books, book_id) = 0
                                  THEN "not_found" ELSE "ok",
                       id |-> book_id, updated_fields |-> <<>>]
    /\ UNCHANGED legacy_books
    /\ UNCHANGED Catalog

\* POST /books: the id is computed from the stored list and replaces the one
\* of the body; the record is appended with its extra_data and written.
add_book(book, extra_data) ==
    /\ Len(legacy_books) < MaxLegacy
    /\ new_id(legacy_books) <= MaxLegacyId
    /\ LET new_book ==
            [id |-> new_id(legacy_books), title |-> book.title,
             author |-> book.author, year |-> book.year, genre |-> book.genre,
             pages |-> book.pages, available |-> book.available,
             extra_data |-> extra_data]
       IN legacy_books' = Append(legacy_books, new_book)
    /\ legacy_resp' = [op |-> "add", status |-> "ok",
                       id |-> new_id(legacy_books), updated_fields |-> <<>>]
    /\ UNCHANGED Catalog

\* PUT /books/{book_id}: 404 if no record has the id; else the loop over the
\* fields the body sets, then the write of the whole list.
update_book(book_id, book) ==
    /\ LET i == FindIndex(legacy_books, book_id)
           Written(f) == /\ f \in LegacyFieldSet
                         /\ book[f] # LAbsent(f)
                         /\ applied(f, book[f])
       IN
       IF i = 0
       THEN /\ legacy_books' = legacy_books
            /\ legacy_resp' = [op |-> "update", status |-> "not_found",
                               id |-> book_id, updated_fields |-> <<>>]
       ELSE /\ legacy_books' =
                    [legacy_books EXCEPT ![i] =
                        [f \in DOMAIN legacy_books[i] |->
                            IF Written(f) THEN book[f] ELSE legacy_books[i][f]]]
            /\ legacy_resp' = [op |-> "update", status |-> "ok", id |-> book_id,
                               updated_fields |-> SelectSeq(LegacyFields, Written)]
    /\ UNCHANGED Catalog

\* DELETE /books/{book_id}: 404 if the filtered list is as long as the list.
delete_book(book_id) ==
    /\ LET new_books == SelectSeq(legacy_books, LAMBDA b : b["id"] # book_id) IN
       IF Len(new_books) = Len(legacy_books)
       THEN /\ legacy_books' = legacy_books
            /\ legacy_resp' = [op |-> "delete", status |-> "not_found",
                               id |-> book_id, updated_fields |-> <<>>]
       ELSE /\ legacy_books' = new_books
            /\ legacy_resp' = [op |-> "delete", status |-> "ok",
                               id |-> book_id, updated_fields |-> <<>>]
    /\ UNCHANGED Catalog

\* books.json as init_db creates it: [].
InitLegacy ==
    /\ Init
    /\ storage_type = "file"

NextLegacy ==
    \/ \E id \in LegacyIds : get_book(id)
    \/ \E book \in LegacyAddBodies, extra_data \in ExtraData : add_book(book, extra_data)
    \/ \E id \in LegacyIds, book \in LegacyUpdateBodies : update_book(id, book)
    \/ \E id \in LegacyIds : delete_book(id)

SpecLegacy == InitLegacy /\ [][NextLegacy]_vars

\* ---------------------------------------------------------------- requests with their enrichment call
\* The requests served one after another, each enrichment wait spelled out:
\* the request calls enrich_book_data, the call runs under some outcome of
\* its external requests, and the request goes on with what the call returned.

\* Outcomes the calls are tried under: a failed search; a hit with cover id,
\* description and rating; a hit whose cover comes from the edition probe; a
\* hit whose work document times out; a hit whose description is not a str.
WorkHit == [kind |-> "hit", key |-> TRUE, cover_i |-> TRUE, edition_key |-> FALSE]
WorkOutcomes ==
    { [search |-> [kind |-> "client_error", key |-> FALSE, cover_i |-> FALSE,
                   edition_key |-> FALSE],
       details |-> "ok", editions |-> "none", ratings |-> "none", probe |-> "ok"],
      [search |-> WorkHit,
       details |-> "ok", editions |-> "text", ratings |-> "value", probe |-> "ok"],
      [search |-> [WorkHit EXCEPT !.cover_i = FALSE, !.edition_key = TRUE],
       details |-> "ok", editions |-> "none", ratings |-> "none", probe |-> "ok"],
      [search |-> WorkHit,
       details |-> "timeout", editions |-> "text", ratings |-> "value", probe |-> "ok"],
      [search |-> WorkHit,
       details |-> "ok", editions |-> "not_text", ratings |-> "value", probe |-> "ok"] }

\* enrich_book_data was called and has not returned.
Call(o) == [outcome |-> o, status |-> "pending", result |-> NoEnrichment, sent |-> <<>>]

\* The variables neither a request nor its enrichment call touches.
Rest == <<listed, file_state, environ, stores, legacy_books, legacy_resp>>

\* POST /books up to `await self.openlibrary_api.enrich_book_data(...)`.
CreateCall(body, o) ==
    /\ CreateBegin(TRUE, body)
    /\ enrich_call' = Call(o)
    /\ UNCHANGED Rest

\* POST /books from the return of the call on.
CreateReturn(r) ==
    /\ enrich_call.status = "returned"
    /\ CreateResume(r, enrich_call.result)
    /\ UNCHANGED Aside

\* PUT /books/{book_id} with title, up to the await of the call.
UpdateCall(id, body, o) ==
    /\ UpdateBegin(TRUE, id, body)
    /\ enrich_call' = Call(o)
    /\ UNCHANGED Rest

\* PUT /books/{book_id} from the return of the call on.
UpdateReturn(r) ==
    /\ enrich_call.status = "returned"
    /\ UpdateResume(r, enrich_call.result)
    /\ UNCHANGED Aside

NextWork ==
    \/ \E id \in Ids : GetBook(TRUE, id) /\ UNCHANGED Aside
    \/ \E body \in CreateBodies, o \in WorkOutcomes : CreateCall(body, o)
    \/ EnrichBookData
    \/ \E r \in Waiting : CreateReturn(r)
    \/ \E id \in Ids, body \in UpdateBodies : UpdateBook(TRUE, id, body) /\ UNCHANGED Aside
    \/ \E id \in Ids, body \in UpdateBodies, o \in WorkOutcomes : UpdateCall(id, body, o)
    \/ \E r \in Waiting : UpdateReturn(r)
    \/ \E id \in Ids : DeleteBook(TRUE, id) /\ UNCHANGED Aside

\* Every external request ends within the session timeout (total=10), so a
\* call that was started returns, and the event loop resumes the request
\* that awaits it.
SpecWork ==
    /\ Init
    /\ [][NextWork]_vars
    /\ WF_vars(EnrichBookData)
    /\ WF_vars(\E r \in Waiting : CreateReturn(r) \/ UpdateReturn(r))

\* ================================================================ claims
IdsOf(bs) == {bs[i]["id"] : i \in DOMAIN bs}
\* The ids that were stored before the last record was appended.
PriorIds == {books[i]["id"] : i \in 1..(Len(books) - 1)}
CreateSucceeded == resp.op = "create" /\ resp.status = "ok"
\* The fields an update body sets (model_dump(exclude_unset=True)).
Supplied(body) == {f \in UserFields : body[f] # Absent(f)}
HasValue(f, v) == v \notin {Null(f), Absent(f)}

\* C1 (as stated): a successful create returns a record whose id is the largest
\* id stored before it plus 1, or 1 when the collection was empty, in every
\* backend.
C1_IdIsMaxPlusOne ==
    CreateSucceeded =>
        resp.book["id"] = IF PriorIds = {} THEN 1 ELSE MaxOf(PriorIds) + 1

\* C1 (amended): a successful create returns max stored id + 1 (1 when empty) in
\* the relational backend; in the file and remote backends it returns the
\* persisted next_id counter, which is larger than every stored id.
C1_IdFromBackendStrategy ==
    CreateSucceeded =>
        IF storage_type = "db"
        THEN resp.book["id"] = IF PriorIds = {} THEN 1 ELSE MaxOf(PriorIds) + 1
        ELSE /\ resp.book["id"] = next_id - 1
             /\ \A x \in PriorIds : x < resp.book["id"]

\* A create into an emptied file collection got id 2, not 1.
C1_Witness ==
    /\ CreateSucceeded
    /\ storage_type = "file"
    /\ PriorIds = {}
    /\ resp.book["id"] = 2

\* C2: when requests are served one after another and storage never fails, no
\* two stored records have the same id.
C2_IdsUnique ==
    \A i, j \in DOMAIN books : i # j => books[i]["id"] # books[j]["id"]

\* Two records are stored, the second one just created.
C2_Witness == CreateSucceeded /\ Len(books) = 2

\* C3: two creates interleaved at the enrichment wait get different ids: the
\* store never holds two records with one id and neither create fails.
C3_InterleavedCreatesDistinct ==
    /\ \A i, j \in DOMAIN books : i # j => books[i]["id"] # books[j]["id"]
    /\ resp.op = "create" => resp.status = "ok"

\* C4: a get by the returned id right after a successful create returns the
\* record create returned, enrichment fields included.
C4_RoundTrip ==
    CreateSucceeded =>
        get_by_id(books, resp.id) = [status |-> "ok", book |-> resp.book]

\* C5: after delete(X) succeeded, get(X) reports not-found and a second
\* delete(X) reports not-found; X is found again only once a create has
\* assigned it.
C5_DeleteThenGet ==
    /\ [](resp.op = "delete" /\ resp.status = "ok" =>
            /\ get_by_id(books, resp.id).status = "not_found"
            /\ delete(books, resp.id).status = "not_found")
    /\ [][\A x \in Ids :
            (get_by_id(books, x).status = "not_found"
                /\ get_by_id(books', x).status # "not_found")
            => (resp'.op = "create" /\ resp'.id = x)]_vars

\* A stored record was deleted.
C5_Witness ==
    /\ resp.op = "delete"
    /\ resp.status = "ok"
    /\ resp.id \notin IdsOf(books)
    /\ books # <<>>

\* Every schema field outside S of the record with this id is in bs2 what it
\* was in bs1.
SameOutside(bs1, bs2, id, S) ==
    LET i == FindIndex(bs1, id)
        j == FindIndex(bs2, id)
    IN i # 0 => /\ j # 0
                /\ \A f \in SchemaFields \ S : bs2[j][f] = bs1[i][f]

\* C6: an update leaves every field it was not given as it was: the user
\* fields outside the supplied set, and the enrichment fields too when title
\* is not supplied.
C6_PartialUpdateFrame ==
    [][/\ \A id \in Ids, body \in UpdateBodies :
            UpdateBook(TRUE, id, body)
            => SameOutside(books, books', id, Supplied(body))
       /\ \A r \in Waiting, e \in EnrichResults :
            UpdateResume(r, e)
            => SameOutside(books, books', r.book_id,
                           Supplied(r.update_data) \cup EnrichFields)]_vars

\* An update of pages alone went through on the file backend: title and the
\* stored rating are still there.
C6_Witness ==
    /\ resp.op = "update"
    /\ resp.status = "ok"
    /\ storage_type = "file"
    /\ resp.book["pages"] = 300
    /\ resp.book["title"] = "Dune"
    /\ resp.book["rating"] = 48
    /\ get_by_id(books, resp.id).book = resp.book

\* Update bodies that set at least one field, none of them to null.
ValidUpdateBodies ==
    {b \in UpdateBodies : Supplied(b) # {} /\ \A f \in Supplied(b) : b[f] # Null(f)}
Overlay(rec, body) ==
    [f \in Keys |-> IF f \in Supplied(body) THEN body[f] ELSE rec[f]]

\* C7: an update of a stored id with valid fields succeeds, persists the prior
\* record overlaid with the supplied fields and returns it; an update of an id
\* that is not stored returns not-found.
C7_UpdateMergesAndReturns ==
    [][\A id \in Ids, body \in ValidUpdateBodies :
            UpdateBook(TRUE, id, body)
            => LET i == FindIndex(books, id) IN
               IF i = 0
               THEN resp'.status = "not_found" /\ books' = books
               ELSE /\ resp'.status = "ok"
                    /\ books' = [books EXCEPT ![i] = Overlay(books[i], body)]
                    /\ resp'.book = ToBook(Overlay(books[i], body))]_vars

\* C8: every persisted record has all required fields with a non-null value.
C8_RequiredFieldsPresent ==
    \A i \in DOMAIN books : \A f \in RequiredFields : HasValue(f, books[i][f])

\* C9: an update that supplies title and gets an enrichment result without a
\* field leaves the stored value of that field as it was; no step replaces a
\* stored enrichment value by nothing.
C9_EnrichmentAdditiveOnUpdate ==
    [][/\ \A r \in Waiting, e \in EnrichResults :
            UpdateResume(r, e)
            => LET i == FindIndex(books, r.book_id)
                   j == FindIndex(books', r.book_id)
               IN i # 0 => /\ j # 0
                           /\ \A f \in EnrichFields :
                                e[f] = Null(f) => books'[j][f] = books[i][f]
       /\ \A x \in Ids :
            LET i == FindIndex(books, x)
                j == FindIndex(books', x)
            IN (i # 0 /\ j # 0)
               => \A f \in EnrichFields :
                    HasValue(f, books[i][f]) => HasValue(f, books'[j][f])]_vars

\* A title update whose enrichment found a rating only was written over a
\* record that had a cover and a description: both are still stored.
C9_Witness ==
    /\ resp.op = "update"
    /\ resp.enriched = [cover_url |-> NullS, description |-> NullS, rating |-> 48]
    /\ storage_type = "file"
    /\ LET i == FindIndex(books, resp.id) IN
       /\ i # 0
       /\ books[i]["title"] = "Solaris"
       /\ books[i]["cover_url"] = CoverUrl
       /\ books[i]["description"] = "text"
       /\ books[i]["rating"] = 48

\* C10: create succeeds for every enrichment result, and each enrichment field
\* of the created record is the value the provider returned, absent when the
\* provider returned none.
C10_CreateMergesEnrichment ==
    resp.op = "create" =>
        /\ resp.status = "ok"
        /\ \A f \in EnrichFields : resp.book[f] = resp.enriched[f]

\* C11: an update whose body has no fields is rejected with a client
\* (validation) error and the store is not written; checked for the ids that
\* are stored, where not-found cannot be the answer.
C11_EmptyBodyRejected ==
    [][\A id \in Ids :
            (UpdateBook(TRUE, id, NoUpdate) /\ FindIndex(books, id) # 0)
            => /\ resp'.status = "bad_request"
               /\ books' = books]_vars

\* C12: an operation that ends in an error leaves the persisted collection as
\* it was before the operation.
C12_ErrorAtomicity ==
    [][resp'.status = "error" => (books' = books /\ next_id' = next_id)]_vars

\* C13: for an id that is not stored, get returns the empty result, update
\* returns not-found without calling the enrichment provider, delete returns
\* false, and none of them changes the store.
C13_NotFoundNoSideEffects ==
    [][\A id \in Ids :
            FindIndex(books, id) = 0 =>
                /\ GetBook(TRUE, id) => resp'.status = "not_found"
                /\ DeleteBook(TRUE, id) => resp'.status = "not_found"
                /\ \A body \in UpdateBodies :
                        /\ UpdateBook(TRUE, id, body) => resp'.status = "not_found"
                        /\ ~UpdateBegin(TRUE, id, body)
                /\ (resp'.id = id /\ resp'.op \in {"get", "update", "delete"})
                        => (books' = books /\ next_id' = next_id /\ req' = req)]_vars

\* An update of an id that is not stored was answered not-found while
\* another record is stored.
C13_Witness ==
    /\ resp.op = "update"
    /\ resp.status = "not_found"
    /\ resp.id \notin IdsOf(books)
    /\ books # <<>>

\* The stored records that match the filters when author and genre are
\* compared ignoring case.
MatchingIgnoringCase(author, genre, availability) ==
    { ToBook(books[i]) : i \in
        { j \in DOMAIN books :
            /\ Given(author) => lower(books[j]["author"]) = lower(author)
            /\ Given(genre) => lower(books[j]["genre"]) = lower(genre)
            /\ Given(availability) => books[j]["availability"] = availability } }

\* C14: in every backend a list with an author or genre filter returns
\* exactly the stored records whose author (genre) equals the filter value
\* ignoring case; checked on the requests whose page holds every match.
C14_FilterIgnoresCase ==
    (listed.status # "none" /\ listed.offset = 0 /\ listed.limit >= Len(books))
    => /\ listed.status = "ok"
       /\ {listed.books[i] : i \in DOMAIN listed.books}
            = MatchingIgnoringCase(listed.author, listed.genre, listed.availability)

\* C15: in the relational backend nothing is written to the table between
\* the next-id computation and the insert of a create (no write happens while
\* some other create stays suspended between the two), two creates never
\* leave two rows with one id, and a create that fails leaves the table as it
\* was.
C15_RelationalCreateAtomic ==
    [][storage_type = "db" =>
        /\ books' # books =>
                \A r \in BagToSet(req') : ~(r.pc = "create_wait" /\ BagIn(r, req))
        /\ \A i, j \in DOMAIN books' : i # j => books'[i]["id"] # books'[j]["id"]
        /\ (resp'.op = "create" /\ resp'.status = "error") => books' = books]_vars

\* C16: in the relational backend, when the storage step of a create, an
\* update or a delete fails, the table is unchanged and the operation ends in
\* an error, never in success.
C16_RelationalFailuresSurfaced ==
    [][storage_type = "db" =>
        \A io \in IoOutcomes : ~io.write =>
            /\ \A r \in Waiting, e \in InterleavedEnrichResults :
                    (CreateResumeFaulty(r, e, io) \/ UpdateResumeFaulty(r, e, io))
                    => (resp'.status = "error" /\ books' = books)
            /\ \A id \in Ids :
                    (io.lookup /\ FindIndex(books, id) # 0) =>
                        /\ \A body \in InterleavedUpdateBodies :
                                UpdateBookFaulty(id, body, io)
                                => (resp'.status = "error" /\ books' = books)
                        /\ DeleteBookFaulty(id, io)
                                => (resp'.status = "error" /\ books' = books)]_vars

\* The persisted document is what it was.
DocumentUnchanged == books' = books /\ next_id' = next_id

\* C17: in the remote backend a read answered non-200 is the empty collection
\* (get reports not-found, list returns the empty sequence, no error), and a
\* write answered non-200 is dropped: the document is unchanged and the
\* create, update or delete completes without an error.
C17_RemoteDegradation ==
    [][storage_type = "jsonbin" =>
        \A io \in IoOutcomes :
            /\ \A id \in Ids :
                    (GetBookFaulty(id, io) /\ ~io.lookup) => resp'.status = "not_found"
            /\ (GetBooksFaulty(io) /\ ~io.load)
                    => (listed'.status = "ok" /\ listed'.books = <<>>)
            /\ (io.lookup /\ io.load /\ ~io.write) =>
                    /\ \A r \in Waiting, e \in InterleavedEnrichResults :
                            (CreateResumeFaulty(r, e, io) \/ UpdateResumeFaulty(r, e, io))
                            => (DocumentUnchanged /\ resp'.status = "ok")
                    /\ \A id \in Ids :
                            FindIndex(books, id) # 0 =>
                                /\ \A body \in InterleavedUpdateBodies :
                                        UpdateBookFaulty(id, body, io)
                                        => (DocumentUnchanged /\ resp'.status = "ok")
                                /\ DeleteBookFaulty(id, io)
                                        => (DocumentUnchanged /\ resp'.status = "ok")]_vars

\* C18: while the backing file cannot be decoded every operation behaves as
\* on the empty collection with next id 1: get, update and delete report
\* not-found, list is empty, create takes id 1 and succeeds, and no operation
\* ends in an error.
C18_UndecodableFileIsEmpty ==
    [][(storage_type = "file" /\ file_state \in Undecodable) =>
        /\ \A io \in IoOutcomes :
            /\ \A id \in Ids :
                /\ GetBookFaulty(id, io) => resp'.status = "not_found"
                /\ DeleteBookFaulty(id, io) => resp'.status = "not_found"
                /\ \A body \in InterleavedUpdateBodies :
                        UpdateBookFaulty(id, body, io) => resp'.status = "not_found"
            /\ GetBooksFaulty(io) => (listed'.status = "ok" /\ listed'.books = <<>>)
            /\ \A body \in CreateBodies :
                    CreateBeginFaulty(body, io)
                    => \E r \in BagToSet(req') : r.pc = "create_wait" /\ r.book_id = 1
        /\ resp'.status # "error"]_vars

\* C19: in the file and remote backends every successful create takes the
\* persisted counter as its id and increases the counter by exactly 1, and no
\* other operation changes the counter, so the ids handed out only grow, also
\* after deletes; in the relational backend the id a create takes is the
\* current maximum id plus 1, or 1 for an empty table.
C19_NextIdStrategy ==
    [][/\ storage_type # "db" =>
            /\ \A r \in Waiting, e \in EnrichResults :
                    CreateResume(r, e)
                    => /\ resp'.status = "ok"
                       /\ resp'.id = next_id
                       /\ next_id' = next_id + 1
                       /\ \A x \in StoredIds : x < resp'.id
            /\ next_id' # next_id => resp'.op = "create"
       /\ storage_type = "db" =>
            /\ \A body \in CreateBodies :
                    CreateBegin(TRUE, body)
                    => \E r \in BagToSet(req') :
                            r.book_id = IF StoredIds = {} THEN 1
                                        ELSE MaxOf(StoredIds) + 1
            /\ next_id' = next_id]_vars

\* A create in the remote backend that followed a delete: one record is
\* stored and the counter stands at 3.
C19_Witness ==
    /\ CreateSucceeded
    /\ storage_type = "jsonbin"
    /\ Len(books) = 1
    /\ resp.id = 2
    /\ next_id = 3

\* What EnrichBookData can hold.
EnrichBookDataValues ==
    [cover_url : Urls \cup {NullS}, description : {"text", NullS}, rating : {48, NullI}]

\* C20: under every combination of outcomes of its external requests
\* enrich_book_data returns an enrichment result and never raises; the result
\* is empty when the search gave nothing, and a create that merges the result
\* validates.
C20_EnrichmentNeverFails ==
    /\ enrich_call.status # "raised"
    /\ enrich_call.status = "returned" =>
            /\ enrich_call.result \in EnrichBookDataValues
            /\ enrich_call.outcome.search.kind # "hit"
                    => enrich_call.result = NoEnrichment
            /\ \A body \in CreateBodies :
                    ValidBook(MergeEnrichment([model_dump(body) EXCEPT !["id"] = 1],
                                              enrich_call.result))

\* The call returned the empty result although the editions answer carried a
\* description that is not a string.
C20_Witness ==
    /\ enrich_call.status = "returned"
    /\ enrich_call.outcome.search = [kind |-> "hit", key |-> TRUE,
                                     cover_i |-> TRUE, edition_key |-> FALSE]
    /\ enrich_call.outcome.details = "ok"
    /\ enrich_call.outcome.editions = "not_text"
    /\ enrich_call.outcome.ratings = "timeout"
    /\ enrich_call.result = NoEnrichment

\* What the cover lookup gives on its own: the cover-id URL, else the edition
\* cover when the probe answers 200, else nothing.
OwnCover(o) ==
    IF o.search.cover_i THEN CoverUrl
    ELSE IF o.search.edition_key /\ o.probe = "ok" THEN EditionCoverUrl
    ELSE NullS

\* C21: given a search hit, each of description, rating and cover_url is
\* returned whenever its own lookup succeeds, whatever the other steps did,
\* and is empty otherwise.
C21_StepsIndependent ==
    (enrich_call.status = "returned" /\ enrich_call.outcome.search.kind = "hit") =>
        LET o == enrich_call.outcome IN
        /\ enrich_call.result.description
                = IF o.search.key /\ o.editions = "text" THEN "text" ELSE NullS
        /\ enrich_call.result.rating
                = IF o.search.key /\ o.ratings = "value" THEN 48 ELSE NullI
        /\ enrich_call.result.cover_url = OwnCover(o)

\* C22: an update of a stored record calls enrichment exactly when the body
\* sets title, once and before the store is written; it then persists the
\* record merged with the non-empty enrichment fields and returns it.
C22_UpdateEnrichesOnTitle ==
    [][/\ \A id \in Ids, body \in UpdateBodies :
            /\ (UpdateBook(TRUE, id, body) /\ FindIndex(books, id) # 0) =>
                    /\ body["title"] = AbsentS
                    /\ req' = req
                    /\ resp'.enriched = NoEnrichment
            /\ UpdateBegin(TRUE, id, body) =>
                    /\ body["title"] # AbsentS
                    /\ books' = books
                    /\ BagCardinality(req') = 1
       /\ \A r \in Waiting, e \in EnrichResults :
            UpdateResume(r, e) =>
                LET i == FindIndex(books', r.book_id) IN
                /\ req' = EmptyBag
                /\ resp'.status = "ok"
                /\ i # 0
                /\ \A f \in EnrichFields :
                        Truthy(f, e[f]) => books'[i][f] = e[f] /\ resp'.book[f] = e[f]
                /\ resp'.book = ToBook(books'[i])
      ]_vars

\* C23: a create takes the next id before the enrichment call and writes
\* nothing until the call has returned; it then writes the store once, with
\* the complete merged record under that id, and returns it.
C23_CreateOrder ==
    [][/\ \A body \in CreateBodies :
            CreateBegin(TRUE, body) =>
                /\ books' = books
                /\ next_id' = next_id
                /\ \E r \in BagToSet(req') :
                        /\ req' = SetToBag({r})
                        /\ r.pc = "create_wait"
                        /\ r.book_id = IF storage_type = "db"
                                       THEN (IF books = <<>> THEN 1 ELSE MaxOf(StoredIds) + 1)
                                       ELSE next_id
       /\ \A r \in Waiting, e \in EnrichResults :
            CreateResume(r, e) =>
                /\ req' = EmptyBag
                /\ Len(books') = Len(books) + 1
                /\ SubSeq(books', 1, Len(books)) = books
                /\ LET b == books'[Len(books')] IN
                   /\ b["id"] = r.book_id
                   /\ \A f \in UserFields : b[f] = r.book_dict[f]
                   /\ \A f \in EnrichFields : Truthy(f, e[f]) <=> HasValue(f, b[f])
                /\ resp'.status = "ok"
                /\ resp'.book["id"] = r.book_id
      ]_vars

\* A create has written its record with an enrichment field and answered.
C23_Witness ==
    /\ resp.op = "create"
    /\ resp.status = "ok"
    /\ books # <<>>
    /\ books[Len(books)]["id"] = resp.id
    /\ HasValue("cover_url", books[Len(books)]["cover_url"])
    /\ req = EmptyBag

\* The requests the last call of enrich_book_data sent.
Sent == {enrich_call.sent[i] : i \in DOMAIN enrich_call.sent}

\* C24: for a search hit, a cover id gives the cover-id URL and the edition
\* probe is not sent; without cover id, a listed edition gives the edition URL
\* if the probe answers 200 and nothing otherwise; with neither, no cover.
C24_CoverResolution ==
    (enrich_call.status = "returned" /\ enrich_call.outcome.search.kind = "hit") =>
        LET o == enrich_call.outcome IN
        /\ o.search.cover_i =>
                /\ enrich_call.result.cover_url = CoverUrl
                /\ "probe" \notin Sent
        /\ (~o.search.cover_i /\ o.search.edition_key) =>
                /\ "probe" \in Sent
                /\ enrich_call.result.cover_url
                        = IF o.probe = "ok" THEN EditionCoverUrl ELSE NullS
        /\ (~o.search.cover_i /\ ~o.search.edition_key) =>
                /\ enrich_call.result.cover_url = NullS
                /\ "probe" \notin Sent

\* The collection after a step holds the same ids at the same places, every
\* record with another id than X as it was, and the same counter.
OnlyRecordChanged(X) ==
    /\ Len(books') = Len(books)
    /\ \A i \in DOMAIN books :
            /\ books'[i]["id"] = books[i]["id"]
            /\ books[i]["id"] # X => books'[i] = books[i]
    /\ next_id' = next_id

\* C25: an update of id X changes no other record and no id: the stored ids
\* stay the same, every record with another id is unchanged, and the counter
\* is not advanced.
C25_UpdateFrame ==
    [][/\ \A id \in Ids, body \in UpdateBodies :
            (UpdateBook(TRUE, id, body) \/ UpdateBegin(TRUE, id, body)) =>
                OnlyRecordChanged(id)
       /\ \A r \in Waiting, e \in EnrichResults :
            UpdateResume(r, e) => OnlyRecordChanged(r.book_id)
      ]_vars

\* An update has rewritten one of two stored records.
C25_Witness ==
    /\ resp.op = "update"
    /\ resp.status = "ok"
    /\ Len(books) = 2
    /\ \E i, j \in DOMAIN books :
            /\ books[i]["id"] = resp.id
            /\ books[i]["pages"] = 300
            /\ books[j]["id"] # resp.id
            /\ books[j]["pages"] = 412

\* C26: delete of id X answers true exactly when a record with id X was
\* stored; afterwards no record has id X, the other records are unchanged and
\* in the same order, and the counter is not changed.
C26_DeleteRemovesExactly ==
    [][\A id \in Ids :
            DeleteBook(TRUE, id) =>
                /\ resp'.status = IF id \in StoredIds THEN "ok" ELSE "not_found"
                /\ \A i \in DOMAIN books' : books'[i]["id"] # id
                /\ books' = SelectSeq(books, LAMBDA b : b["id"] # id)
                /\ next_id' = next_id
      ]_vars

\* The stored records that match the filters when author and genre are
\* compared ignoring case, in stored order.
MatchingInOrder(author, genre, availability) ==
    LET m == SelectSeq(books, LAMBDA b :
                /\ Given(author) => lower(b["author"]) = lower(author)
                /\ Given(genre) => lower(b["genre"]) = lower(genre)
                /\ Given(availability) => b["availability"] = availability)
    IN [i \in DOMAIN m |-> ToBook(m[i])]

\* C27: a list request returns the records that match the filters, in stored
\* order, without the first offset matches and at most limit of them; it is
\* empty when nothing matches or the offset is past the last match; it
\* writes nothing and calls no enrichment.
C27_ListPagination ==
    [][\A offset \in ListOffsets, limit \in ListLimits, author \in AuthorFilters,
          genre \in GenreFilters, availability \in AvailabilityFilters :
            (GetBooks(offset, limit, author, genre, availability)) =>
                LET m == MatchingInOrder(author, genre, availability) IN
                /\ listed'.status = "ok"
                /\ listed'.books = Slice(m, offset, limit)
                /\ Len(listed'.books) <= limit
                /\ (m = <<>> \/ offset >= Len(m)) => listed'.books = <<>>
                /\ books' = books
                /\ next_id' = next_id
                /\ req' = req
                /\ enrich_call' = enrich_call
      ]_vars

\* C28: the backend is selected once: every request of the process is served
\* by the backend chosen at process start, whatever happens to STORAGE_TYPE
\* afterwards.
C28_BackendFixed == [][storage_type' = storage_type]_vars

\* C29: whatever requests were served, failed ones included, every stored
\* record can be read by its id, a list without filters returns, and a
\* delete of a stored id succeeds.
C29_StoredRecordsReadable ==
    \A i \in DOMAIN books :
        /\ get_by_id(books, books[i]["id"]).status = "ok"
        /\ get_all(books, 0, 10, NullS, NullS, NullS).status = "ok"
        /\ delete(books, books[i]["id"]).status = "ok"

\* C30: in the file and remote backends, when an update that sets title
\* completes after its enrichment wait, the stored record keeps, in every
\* field that update did not supply, the value it had just before the
\* write, which is the value an update completed during the wait has given it.
C30_NoLostUpdate ==
    [][\A r \in Waiting, e \in InterleavedEnrichResults :
            (UpdateResume(r, e) /\ storage_type # "db") =>
                LET i == FindIndex(books, r.book_id) IN
                i # 0 =>
                    \A f \in UserFields \ Supplied(r.update_data) :
                        books'[i][f] = books[i][f]
      ]_vars

\* C31: in the file and remote backends a create during which a read failed
\* removes no stored record, leaves the counter above every id in use, and
\* stores no second record under an id in use.
C31_ReadFailureHarmless ==
    [][\A r \in Waiting, e \in InterleavedEnrichResults, io \in IoOutcomes :
            (CreateResumeFaulty(r, e, io) /\ storage_type # "db") =>
                /\ \A i \in DOMAIN books : \E j \in DOMAIN books' : books'[j] = books[i]
                /\ \A j \in DOMAIN books' : books'[j]["id"] < next_id'
                /\ \A i, j \in DOMAIN books' :
                        i # j => books'[i]["id"] # books'[j]["id"]
      ]_vars

\* C32: an update that resumes from its enrichment wait after its record was
\* deleted reports not-found and writes nothing, in every backend.
C32_NoResurrection ==
    [][\A r \in Waiting, e \in InterleavedEnrichResults :
            (UpdateResume(r, e) /\ FindIndex(books, r.book_id) = 0) =>
                /\ resp'.status = "not_found"
                /\ books' = books
                /\ next_id' = next_id
      ]_vars

\* C33: in the file and remote backends a create that resumes from its
\* enrichment wait writes the collection as it is stored then, with whatever
\* other requests did to it during the wait, plus its own record at the end,
\* and the stored counter plus one.
C33_CreateFromFreshRead ==
    [][\A r \in Waiting, e \in InterleavedEnrichResults :
            (CreateResume(r, e) /\ storage_type # "db") =>
                /\ Len(books') = Len(books) + 1
                /\ SubSeq(books', 1, Len(books)) = books
                /\ books'[Len(books')]["id"] = r.book_id
                /\ next_id' = next_id + 1
      ]_vars

\* A create has appended its record behind one that another create stored
\* while it was waiting (both had read the same id).
C33_Witness ==
    /\ storage_type # "db"
    /\ resp.op = "create"
    /\ resp.status = "ok"
    /\ Len(books) = 2
    /\ books[1]["id"] = books[2]["id"]
    /\ next_id = 3

\* C34: in the file and remote backends, with requests served one after
\* another and a store that does not fail, the stored counter is greater than
\* the id of every stored record after every step, and it never decreases.
C34_CounterDominatesIds ==
    [][storage_type # "db" =>
            /\ \A i \in DOMAIN books' : books'[i]["id"] < next_id'
            /\ next_id' >= next_id
      ]_vars

\* Two creates and the delete of the newer record: the counter stays at 3
\* above the one stored id.
C34_Witness ==
    /\ storage_type # "db"
    /\ resp.op = "delete"
    /\ resp.status = "ok"
    /\ resp.id = 2
    /\ Len(books) = 1
    /\ books[1]["id"] = 1
    /\ next_id = 3

\* C35: add_book of the first version gives the new record the largest
\* stored id plus one, or 1 for an empty list, whatever id the body carries;
\* after any sequence of add, update and delete requests served one after
\* another no two stored records share an id.
C35_LegacyAddId ==
    [][/\ \A book \in LegacyAddBodies, extra_data \in ExtraData :
            add_book(book, extra_data) =>
                LET expected == IF legacy_books = <<>> THEN 1
                                ELSE MaxOf({legacy_books[i]["id"] : i \in DOMAIN legacy_books}) + 1
                IN
                /\ legacy_resp'.id = expected
                /\ Len(legacy_books') = Len(legacy_books) + 1
                /\ legacy_books'[Len(legacy_books')]["id"] = expected
       /\ \A i, j \in DOMAIN legacy_books' :
            i # j => legacy_books'[i]["id"] # legacy_books'[j]["id"]
      ]_vars

\* After the delete of record 1, an add has stored id 3 behind id 2.
C35_Witness ==
    /\ legacy_resp.op = "add"
    /\ legacy_resp.id = 3
    /\ Len(legacy_books) = 2
    /\ legacy_books[1]["id"] = 2
    /\ legacy_books[2]["id"] = 3

\* C36: update_book of the first version writes a supplied field exactly
\* when its value is not null, not the placeholder (title, author, genre)
\* and not 0 (year, pages); updated_fields lists exactly the written fields;
\* every other field, the id and every other record keep their values; an
\* id that is not stored gives not-found and changes nothing.
C36_LegacyUpdate ==
    [][\A id \in LegacyIds, book \in LegacyUpdateBodies :
            update_book(id, book) =>
                LET i == FindIndex(legacy_books, id)
                    Expected(f) ==
                        /\ book[f] \notin {LAbsent(f), LNull(f)}
                        /\ f \in {"title", "author", "genre"} => book[f] # SkipValue
                        /\ f \in {"year", "pages"} => book[f] # 0
                IN
                IF i = 0
                THEN /\ legacy_resp'.status = "not_found"
                     /\ legacy_books' = legacy_books
                ELSE /\ legacy_resp'.status = "ok"
                     /\ legacy_resp'.updated_fields = SelectSeq(LegacyFields, Expected)
                     /\ Len(legacy_books') = Len(legacy_books)
                     /\ \A j \in DOMAIN legacy_books :
                            j # i => legacy_books'[j] = legacy_books[j]
                     /\ legacy_books'[i]["id"] = id
                     /\ legacy_books'[i]["extra_data"] = legacy_books[i]["extra_data"]
                     /\ \A f \in LegacyFieldSet :
                            legacy_books'[i][f] =
                                IF Expected(f) THEN book[f] ELSE legacy_books[i][f]
      ]_vars

\* An update that mixed values with a placeholder, a zero and a null has
\* written title, pages and available of one of two records.
C36_Witness ==
    /\ legacy_resp.op = "update"
    /\ legacy_resp.status = "ok"
    /\ legacy_resp.updated_fields = <<"title", "pages", "available">>
    /\ Len(legacy_books) = 2
    /\ \E i, j \in DOMAIN legacy_books :
            /\ legacy_books[i]["id"] = legacy_resp.id
            /\ legacy_books[i]["title"] = "Solaris"
            /\ legacy_books[i]["author"] = "Herbert"
            /\ legacy_books[i]["year"] = 1965
            /\ legacy_books[i]["available"] = "false"
            /\ legacy_books[j]["id"] # legacy_resp.id
            /\ legacy_books[j]["title"] = "Dune"

====
